---- MODULE Spec2Model ----
(***************************************************************************)
(* A model of the two Streamlit dashboards src/app.py ("Decision           *)
(* Intelligence Analyzer") and src/app1.py ("AI-Powered Customer Feedback  *)
(* Analyzer").  A Streamlit script is re-run from its first line on every  *)
(* user interaction; the model keeps the widget state of one session       *)
(* between the runs and follows one run statement group by statement       *)
(* group (pc).  The tabular-file parser, the chart library and the remote  *)
(* chat endpoint are external: a file either parses to a table or raises,  *)
(* the remote call either returns a text or raises.                        *)
(***************************************************************************)
EXTENDS Integers, Sequences, FiniteSets, TLC

VARIABLES
    app,                  \* which script the session runs: "app.py" or "app1.py"
    openai_key,           \* st.text_input value (sidebar)
    uploaded_file,        \* st.file_uploader value (sidebar), NoFile when None
    genre_choice,         \* the value the genre st.selectbox holds between runs
    clicked,              \* st.button returns True in this run
    pc,                   \* position of the current run in the script, "idle" between runs
    df,                   \* the loaded table
    selected_genre,       \* script local
    genre_df,             \* script local
    sentiment_counts,     \* script local
    genre_sentiment,      \* script local
    genre_sentiment_dist, \* script local
    feedback_text,        \* script local
    rendered,             \* the elements the current run has put on the page
    outcome,              \* how the current run ended ("running" until it ends)
    n_clicks,             \* clicks of the generate button so far
    n_calls,              \* client.chat.completions.create invocations so far
    run_calls             \* ... of them in the current run

vars == <<app, openai_key, uploaded_file, genre_choice, clicked, pc, df,
          selected_genre, genre_df, sentiment_counts, genre_sentiment,
          genre_sentiment_dist, feedback_text, rendered, outcome, n_clicks,
          n_calls, run_calls>>

-----------------------------------------------------------------------------
(* Bounds of the model *)

\* longest table of the exhaustively enumerated small files
MaxRows == 2

\* a classified text is the concatenation of at most MaxFrags fragments
MaxFrags == 3

\* clicks of the generate button in one session
MaxClicks == 2

\* long tables have a length within Slack of a multiple of a truncation limit
Slack == 1

-----------------------------------------------------------------------------
(* Program constants *)

\* genre_df["Feedback"].astype(str).tolist()[:120]
MaxRowsApp == 120

\* df["Feedback"].astype(str).tolist()[:100]
MaxRowsApp1 == 100

\* .head(10)
HeadRows == 10

max_rows == IF app = "app.py" THEN MaxRowsApp ELSE MaxRowsApp1

required_cols == IF app = "app.py" THEN {"Feedback", "Genre"} ELSE {"Feedback"}

-----------------------------------------------------------------------------
(* Text: a Python str is a sequence of one-character strings *)

NL == "\n"

UpperChars == <<"A","B","C","D","E","F","G","H","I","J","K","L","M",
                "N","O","P","Q","R","S","T","U","V","W","X","Y","Z">>

LowerChars == <<"a","b","c","d","e","f","g","h","i","j","k","l","m",
                "n","o","p","q","r","s","t","u","v","w","x","y","z">>

\* str.lower() on one character
LowerChar(c) ==
    IF \E k \in 1..Len(UpperChars) : UpperChars[k] = c
    THEN LowerChars[CHOOSE k \in 1..Len(UpperChars) : UpperChars[k] = c]
    ELSE c

\* str.lower()
lower(s) == [i \in 1..Len(s) |-> LowerChar(s[i])]

\* A cell of an object column: a string, or the missing value NaN.
StrCell(s) == [kind |-> "str", val |-> s]

NaN == [kind |-> "nan", val |-> <<>>]

\* str(x) and Series.astype(str): a string is itself, NaN is "nan"
str(x) == IF x.kind = "nan" THEN <<"n","a","n">> ELSE x.val

\* word in text
Contains(word, text) ==
    \E i \in 0..(Len(text) - Len(word)) :
        \A j \in 1..Len(word) : text[i + j] = word[j]

PositiveWords ==
    << <<"l","o","v","e">>,
       <<"g","r","e","a","t">>,
       <<"e","x","c","e","l","l","e","n","t">>,
       <<"a","m","a","z","i","n","g">>,
       <<"s","a","t","i","s","f","i","e","d">> >>

NegativeWords ==
    << <<"b","a","d">>,
       <<"p","o","o","r">>,
       <<"t","e","r","r","i","b","l","e">>,
       <<"w","o","r","s","t">>,
       <<"d","e","l","a","y">>,
       <<"i","s","s","u","e">> >>

\* mutant: the negative keywords are tried first
classify_sentiment_NegativeFirst(text) ==
    LET t == lower(str(text)) IN
    IF \E k \in 1..Len(NegativeWords) : Contains(NegativeWords[k], t)
    THEN "Negative"
    ELSE IF \E k \in 1..Len(PositiveWords) : Contains(PositiveWords[k], t)
         THEN "Positive"
         ELSE "Neutral"

classify_sentiment(text) ==
    LET t == lower(str(text)) IN
    IF \E k \in 1..Len(PositiveWords) : Contains(PositiveWords[k], t)
    THEN "Positive"
    ELSE IF \E k \in 1..Len(NegativeWords) : Contains(NegativeWords[k], t)
         THEN "Negative"
         ELSE "Neutral"

\* "\n".join(values): the values with one newline between neighbours
\* (computed by halves, which keeps the evaluation shallow)
RECURSIVE JoinNL(_)
JoinNL(values) ==
    IF Len(values) = 0 THEN <<>>
    ELSE IF Len(values) = 1 THEN values[1]
    ELSE LET h == Len(values) \div 2 IN
         JoinNL(SubSeq(values, 1, h)) \o <<NL>> \o JoinNL(SubSeq(values, h + 1, Len(values)))

-----------------------------------------------------------------------------
(* Tables: a DataFrame is its number of rows and, per column, the cells *)

NoTable == [n |-> 0, col |-> <<>>]

Columns(t) == DOMAIN t.col

\* the elements of S in the order of less, the set of the pairs <<y, x>>
\* with y before x (a strict total order on S)
SortedSeq(S, less) ==
    [i \in 1..Cardinality(S) |->
        CHOOSE x \in S : Cardinality({y \in S : <<y, x>> \in less}) = i - 1]

\* Python's < on the genre names that occur
GenreNames == <<"Comedy", "Drama">>

GenreRank(name) == CHOOSE k \in 1..Len(GenreNames) : GenreNames[k] = name

\* Python's < on the sentiment labels
Labels == <<"Negative", "Neutral", "Positive">>

LabelRank(l) == CHOOSE k \in 1..Len(Labels) : Labels[k] = l

\* elementwise ==: NaN equals nothing, None equals nothing
PandasEq(cell, value) == cell.kind = "str" /\ cell = value

NoneValue == [kind |-> "none", val |-> ""]

\* df[mask]: the rows whose index is in keep, in row order
FilterRows(t, keep) ==
    LET idx == SelectSeq([i \in 1..t.n |-> i], LAMBDA i : i \in keep) IN
    [n |-> Len(idx),
     col |-> [c \in Columns(t) |-> [k \in 1..Len(idx) |-> t.col[c][idx[k]]]]]

\* .head(k) of some columns
head(t, cols, k) ==
    LET m == IF t.n < k THEN t.n ELSE k IN
    [n |-> m, col |-> [c \in cols |-> SubSeq(t.col[c], 1, m)]]

\* mutant: value_counts counts each value once
value_counts_Distinct(series) ==
    LET vals == {series[i] : i \in 1..Len(series)}
        first(v) == CHOOSE i \in 1..Len(series) :
                        series[i] = v /\ \A j \in 1..(i - 1) : series[j] # v
        before == {<<a, b>> \in vals \X vals : first(a) < first(b)}
        order == SortedSeq(vals, before)
    IN [k \in 1..Len(order) |-> [Sentiment |-> order[k], Count |-> 1]]

\* Series.value_counts().reset_index() with columns (Sentiment, Count):
\* one row per value that occurs, most frequent first, ties in order of
\* first appearance
value_counts(series) ==
    LET vals == {series[i] : i \in 1..Len(series)}
        cnt(v) == Cardinality({i \in 1..Len(series) : series[i] = v})
        first(v) == CHOOSE i \in 1..Len(series) :
                        series[i] = v /\ \A j \in 1..(i - 1) : series[j] # v
        before == {<<a, b>> \in vals \X vals :
                      cnt(a) > cnt(b) \/ (cnt(a) = cnt(b) /\ first(a) < first(b))}
        order == SortedSeq(vals, before)
    IN [k \in 1..Len(order) |-> [Sentiment |-> order[k], Count |-> cnt(order[k])]]

\* df.groupby(["Genre", "Sentiment"]).size().reset_index(name="Count"):
\* one row per (Genre, Sentiment) pair that occurs, rows with a missing
\* Genre dropped (dropna=True), sorted by the keys
groupby_size(t) ==
    LET G == t.col["Genre"]
        S == t.col["Sentiment"]
        keys == {<<G[i], S[i]>> : i \in {j \in 1..t.n : G[j].kind # "nan"}}
        cnt(k) == Cardinality({i \in 1..t.n : G[i] = k[1] /\ S[i] = k[2]})
        before == {<<a, b>> \in keys \X keys :
                      \/ GenreRank(a[1].val) < GenreRank(b[1].val)
                      \/ a[1] = b[1] /\ LabelRank(a[2]) < LabelRank(b[2])}
        order == SortedSeq(keys, before)
    IN [k \in 1..Len(order) |->
           [Genre |-> order[k][1], Sentiment |-> order[k][2], Count |-> cnt(order[k])]]

\* df["Genre"].unique(): the distinct cells, all NaN being one value
unique(series) == {series[i] : i \in 1..Len(series)}

\* sorted(values) raises TypeError when it has to compare a str with the
\* float NaN, which it does as soon as both occur
sorted_raises(values) ==
    /\ \E v \in values : v.kind = "nan"
    /\ \E v \in values : v.kind = "str"

sorted(values) ==
    IF \A v \in values : v.kind = "str"
    THEN SortedSeq(values, {<<a, b>> \in values \X values :
                               GenreRank(a.val) < GenreRank(b.val)})
    ELSE SortedSeq(values, {})

-----------------------------------------------------------------------------
(* Page elements *)

Text(kind, text) == [kind |-> kind, text |-> text]

Data(kind, data) == [kind |-> kind, data |-> data]

\* an st.error whose text names the columns in names
ColumnError(text, names) == [kind |-> "error", text |-> text, names |-> names]

\* st.set_page_config, st.title, st.caption and the sidebar
PageHeader == <<Text("title", app), Text("caption", app)>>

Shown(kind) == \E i \in 1..Len(rendered) : rendered[i].kind = kind

CountShown(elems, kind) == Cardinality({i \in 1..Len(elems) : elems[i].kind = kind})

-----------------------------------------------------------------------------
(* Uploaded files *)

NoFile == [name |-> "", ok |-> FALSE, table |-> NoTable]

FileNames == {"data.csv", "data.xlsx"}

\* a file no parser accepts
CorruptFiles == {[name |-> nm, ok |-> FALSE, table |-> NoTable] : nm \in FileNames}

\* pd.read_csv / pd.read_excel: the table of the file, or an exception
read_raises(file) == ~file.ok

pd_read_csv(file) == file.table

pd_read_excel(file) == file.table

EndsWithCsv(name) == name = "data.csv"

-----------------------------------------------------------------------------
(* A run of the script *)

\* the script starts over: every local is unset, the page is cleared
StartRun(isClick) ==
    /\ pc' = "validate"
    /\ clicked' = isClick
    /\ rendered' = PageHeader
    /\ df' = NoTable
    /\ selected_genre' = NoneValue
    /\ genre_df' = NoTable
    /\ sentiment_counts' = <<>>
    /\ genre_sentiment' = <<>>
    /\ genre_sentiment_dist' = <<>>
    /\ feedback_text' = <<>>
    /\ outcome' = "running"
    /\ run_calls' = 0

UNCHANGED_locals ==
    UNCHANGED <<selected_genre, genre_df, sentiment_counts, genre_sentiment,
                genre_sentiment_dist, feedback_text>>

UNCHANGED_session ==
    UNCHANGED <<app, openai_key, uploaded_file, clicked, n_clicks>>

\* st.stop() after showing elem
StopWith(elem, how) ==
    /\ rendered' = Append(rendered, elem)
    /\ outcome' = how
    /\ pc' = "idle"

\* mutant: the credential is not checked
Validate_NoKeyCheck ==
    /\ pc = "validate"
    /\ IF uploaded_file = NoFile
       THEN StopWith(Text("info", "Upload a dataset."), "MissingInput")
       ELSE /\ pc' = "load"
            /\ UNCHANGED <<rendered, outcome>>
    /\ UNCHANGED <<df, genre_choice, n_calls, run_calls>>
    /\ UNCHANGED_locals
    /\ UNCHANGED_session

\* if not openai_key: ... if uploaded_file is None: ...
Validate ==
    /\ pc = "validate"
    /\ IF openai_key = ""
       THEN StopWith(Text("info", "Enter OpenAI API key to continue."), "MissingInput")
       ELSE IF uploaded_file = NoFile
            THEN StopWith(Text("info", "Upload a dataset."), "MissingInput")
            ELSE /\ pc' = "load"
                 /\ UNCHANGED <<rendered, outcome>>
    /\ UNCHANGED <<df, genre_choice, n_calls, run_calls>>
    /\ UNCHANGED_locals
    /\ UNCHANGED_session

\* try: df = pd.read_csv / pd.read_excel  except Exception: st.error; st.stop
Load ==
    /\ pc = "load"
    /\ IF read_raises(uploaded_file)
       THEN /\ StopWith(Text("error", "File read error"), "LoadError")
            /\ UNCHANGED df
       ELSE /\ df' = IF EndsWithCsv(uploaded_file.name)
                     THEN pd_read_csv(uploaded_file)
                     ELSE pd_read_excel(uploaded_file)
            /\ pc' = "schema"
            /\ UNCHANGED <<rendered, outcome>>
    /\ UNCHANGED <<genre_choice, n_calls, run_calls>>
    /\ UNCHANGED_locals
    /\ UNCHANGED_session

\* the text of the schema error names a fixed list of columns
SchemaErrorNames == IF app = "app.py" THEN {"Feedback", "Genre"} ELSE {"Feedback"}

\* if any(col not in df.columns for col in required_cols): st.error; st.stop
\* st.success(...); app1.py also st.dataframe(df.head(10))
CheckSchema ==
    /\ pc = "schema"
    /\ IF \E c \in required_cols : c \notin Columns(df)
       THEN StopWith(ColumnError("Dataset must contain", SchemaErrorNames), "SchemaError")
       ELSE /\ rendered' =
                 IF app = "app.py"
                 THEN Append(rendered, Text("success", "Dataset loaded successfully"))
                 ELSE rendered \o <<Text("success", "Dataset loaded successfully"),
                                    Data("dataframe", head(df, Columns(df), HeadRows))>>
            /\ pc' = IF app = "app.py" THEN "enrich" ELSE "prompt"
            /\ UNCHANGED outcome
    /\ UNCHANGED <<df, genre_choice, n_calls, run_calls>>
    /\ UNCHANGED_locals
    /\ UNCHANGED_session

\* mutant: the enrichment also lower-cases the Feedback column in place
WithSentiment_LowersFeedback(t) ==
    [n |-> t.n,
     col |-> [c \in Columns(t) \cup {"Sentiment"} |->
                 IF c = "Sentiment"
                 THEN [i \in 1..t.n |-> classify_sentiment(t.col["Feedback"][i])]
                 ELSE IF c = "Feedback"
                 THEN [i \in 1..t.n |-> StrCell(lower(str(t.col[c][i])))]
                 ELSE t.col[c]]]

\* df["Sentiment"] = df["Feedback"].apply(classify_sentiment)
WithSentiment(t) ==
    [n |-> t.n,
     col |-> [c \in Columns(t) \cup {"Sentiment"} |->
                 IF c = "Sentiment"
                 THEN [i \in 1..t.n |-> classify_sentiment(t.col["Feedback"][i])]
                 ELSE t.col[c]]]

Enrich ==
    /\ pc = "enrich"
    /\ df' = WithSentiment(df)
    /\ pc' = "overall"
    /\ UNCHANGED <<rendered, outcome, genre_choice, n_calls, run_calls>>
    /\ UNCHANGED_locals
    /\ UNCHANGED_session

\* sentiment_counts and chart_overall
OverallChart ==
    /\ pc = "overall"
    /\ sentiment_counts' = value_counts(df.col["Sentiment"])
    /\ rendered' = rendered \o <<Text("subheader", "Overall Sentiment Overview"),
                                 Data("chart", sentiment_counts')>>
    /\ pc' = "genre_chart"
    /\ UNCHANGED <<df, outcome, genre_choice, n_calls, run_calls, selected_genre,
                   genre_df, genre_sentiment, genre_sentiment_dist, feedback_text>>
    /\ UNCHANGED_session

\* genre_sentiment and chart_genre
GenreChart ==
    /\ pc = "genre_chart"
    /\ genre_sentiment' = groupby_size(df)
    /\ rendered' = rendered \o <<Text("subheader", "Genre-wise Sentiment Distribution"),
                                 Data("chart", genre_sentiment')>>
    /\ pc' = "genre_select"
    /\ UNCHANGED <<df, outcome, genre_choice, n_calls, run_calls, selected_genre,
                   genre_df, sentiment_counts, genre_sentiment_dist, feedback_text>>
    /\ UNCHANGED_session

\* st.selectbox(label, options): the option the widget holds, the first
\* option when it holds none of them, None when there is no option
selectbox(options) ==
    IF \E k \in 1..Len(options) : options[k] = genre_choice THEN genre_choice
    ELSE IF Len(options) = 0 THEN NoneValue
    ELSE options[1]

\* selected_genre = st.selectbox(..., sorted(df["Genre"].unique()))
\* genre_df = df[df["Genre"] == selected_genre]
GenreSelect ==
    /\ pc = "genre_select"
    /\ LET values == unique(df.col["Genre"]) IN
       IF sorted_raises(values)
       THEN /\ StopWith(Text("exception", "TypeError"), "UncaughtException")
            /\ UNCHANGED <<selected_genre, genre_df, genre_choice>>
       ELSE LET choice == selectbox(sorted(values)) IN
            /\ selected_genre' = choice
            /\ genre_choice' = choice
            /\ genre_df' = FilterRows(df, {i \in 1..df.n : PandasEq(df.col["Genre"][i], choice)})
            /\ rendered' = rendered \o
                   <<Text("subheader", "Detailed Genre-wise Decision Intelligence"),
                     Data("selectbox", sorted(values))>>
            /\ pc' = "genre_dist"
            /\ UNCHANGED outcome
    /\ UNCHANGED <<df, n_calls, run_calls, sentiment_counts, genre_sentiment,
                   genre_sentiment_dist, feedback_text>>
    /\ UNCHANGED_session

\* genre_sentiment_dist, chart_genre_sent and the sample table
GenreDist ==
    /\ pc = "genre_dist"
    /\ genre_sentiment_dist' = value_counts(genre_df.col["Sentiment"])
    /\ rendered' = rendered \o
           <<Data("chart", genre_sentiment_dist'),
             Text("subheader", "Representative Feedback Samples"),
             Data("dataframe", head(genre_df, {"Feedback", "Sentiment"}, HeadRows))>>
    /\ pc' = "prompt"
    /\ UNCHANGED <<df, outcome, genre_choice, n_calls, run_calls, selected_genre,
                   genre_df, sentiment_counts, genre_sentiment, feedback_text>>
    /\ UNCHANGED_session

\* the table the prompt samples: genre_df in app.py, df in app1.py
PromptSource == IF app = "app.py" THEN genre_df ELSE df

\* mutant: the slice keeps one value too many
build_feedback_text_OneMore(source, limit) ==
    LET values == [i \in 1..source.n |-> str(source.col["Feedback"][i])] IN
    JoinNL(SubSeq(values, 1, IF source.n < limit + 1 THEN source.n ELSE limit + 1))

\* "\n".join(source["Feedback"].astype(str).tolist()[:max_rows])
build_feedback_text(source, limit) ==
    LET values == [i \in 1..source.n |-> str(source.col["Feedback"][i])] IN
    JoinNL(SubSeq(values, 1, IF source.n < limit THEN source.n ELSE limit))

BuildPrompt ==
    /\ pc = "prompt"
    /\ feedback_text' = build_feedback_text(PromptSource, max_rows)
    /\ rendered' = IF app = "app.py" THEN rendered
                   ELSE Append(rendered, Text("subheader", "AI Feedback Analysis"))
    /\ pc' = "button"
    /\ UNCHANGED <<df, outcome, genre_choice, n_calls, run_calls, selected_genre,
                   genre_df, sentiment_counts, genre_sentiment, genre_sentiment_dist>>
    /\ UNCHANGED_session

\* the f-string template: the parts that depend on the table (the decision
\* objective, one of four fixed strings, is passed through unchanged)
Prompt == [Genre |-> selected_genre, Feedback |-> feedback_text]

\* if st.button(...): is False in this run
ButtonNotClicked ==
    /\ pc = "button"
    /\ ~clicked
    /\ rendered' = Append(rendered, Text("button", "Generate"))
    /\ pc' = "footer"
    /\ UNCHANGED <<df, outcome, genre_choice, n_calls, run_calls>>
    /\ UNCHANGED_locals
    /\ UNCHANGED_session

\* the texts the endpoint may answer with
Reports == {"report"}

\* client.chat.completions.create(...) returns; the report is rendered
RemoteCallReturns ==
    /\ pc = "button"
    /\ clicked
    /\ \E content \in Reports :
          rendered' = rendered \o
              <<Text("button", "Generate"),
                Text("heading", "Output"),
                Text("report", content)>>
    /\ n_calls' = n_calls + 1
    /\ run_calls' = run_calls + 1
    /\ pc' = "footer"
    /\ UNCHANGED <<df, outcome, genre_choice>>
    /\ UNCHANGED_locals
    /\ UNCHANGED_session

\* mutant: the failed call is tried once more
RemoteCallRaises_Retry ==
    /\ pc = "button"
    /\ clicked
    /\ rendered' = rendered \o
           <<Text("button", "Generate"), Text("error", "OpenAI Error")>>
    /\ n_calls' = n_calls + 2
    /\ run_calls' = run_calls + 2
    /\ outcome' = "RemoteError"
    /\ pc' = "footer"
    /\ UNCHANGED <<df, genre_choice>>
    /\ UNCHANGED_locals
    /\ UNCHANGED_session

\* mutant: the output heading is rendered before the call is made
RemoteCallRaises_HeadingFirst ==
    /\ pc = "button"
    /\ clicked
    /\ rendered' = rendered \o
           <<Text("button", "Generate"), Text("heading", "Output"),
             Text("error", "OpenAI Error")>>
    /\ n_calls' = n_calls + 1
    /\ run_calls' = run_calls + 1
    /\ outcome' = "RemoteError"
    /\ pc' = "footer"
    /\ UNCHANGED <<df, genre_choice>>
    /\ UNCHANGED_locals
    /\ UNCHANGED_session

\* client.chat.completions.create(...) raises; except Exception: st.error
RemoteCallRaises ==
    /\ pc = "button"
    /\ clicked
    /\ rendered' = rendered \o
           <<Text("button", "Generate"), Text("error", "OpenAI Error")>>
    /\ n_calls' = n_calls + 1
    /\ run_calls' = run_calls + 1
    /\ outcome' = "RemoteError"
    /\ pc' = "footer"
    /\ UNCHANGED <<df, genre_choice>>
    /\ UNCHANGED_locals
    /\ UNCHANGED_session

\* st.divider(); st.caption(...): the script ends
Footer ==
    /\ pc = "footer"
    /\ rendered' = Append(rendered, Text("caption", "footer"))
    /\ outcome' = IF outcome = "running" THEN "Success" ELSE outcome
    /\ pc' = "idle"
    /\ UNCHANGED <<df, genre_choice, n_calls, run_calls>>
    /\ UNCHANGED_locals
    /\ UNCHANGED_session

-----------------------------------------------------------------------------
(* User interactions: each one starts a run *)

Keys == {"", "sk-1"}

\* the user types into the key field
EnterKey ==
    /\ pc = "idle"
    /\ \E k \in Keys \ {openai_key} : openai_key' = k
    /\ StartRun(FALSE)
    /\ UNCHANGED <<app, uploaded_file, genre_choice, n_clicks, n_calls>>

\* the user uploads a file into the empty uploader (replacing a file is a
\* removal followed by an upload)
Upload(files) ==
    /\ pc = "idle"
    /\ uploaded_file = NoFile
    /\ \E f \in files : uploaded_file' = f
    /\ StartRun(FALSE)
    /\ UNCHANGED <<app, openai_key, genre_choice, n_clicks, n_calls>>

\* the user removes the uploaded file
RemoveFile ==
    /\ pc = "idle"
    /\ uploaded_file # NoFile
    /\ uploaded_file' = NoFile
    /\ StartRun(FALSE)
    /\ UNCHANGED <<app, openai_key, genre_choice, n_clicks, n_calls>>

\* the options of the genre selectbox on the page
ShownOptions ==
    LET i == CHOOSE i \in 1..Len(rendered) : rendered[i].kind = "selectbox"
    IN rendered[i].data

\* the user picks another genre
SelectGenre ==
    /\ pc = "idle"
    /\ Shown("selectbox")
    /\ \E k \in 1..Len(ShownOptions) :
          /\ ShownOptions[k] # genre_choice
          /\ genre_choice' = ShownOptions[k]
    /\ StartRun(FALSE)
    /\ UNCHANGED <<app, openai_key, uploaded_file, n_clicks, n_calls>>

\* the user clicks the generate button
ClickGenerate ==
    /\ pc = "idle"
    /\ Shown("button")
    /\ n_clicks < MaxClicks
    /\ n_clicks' = n_clicks + 1
    /\ StartRun(TRUE)
    /\ UNCHANGED <<app, openai_key, uploaded_file, genre_choice, n_calls>>

RunStep ==
    \/ Validate
    \/ Load
    \/ CheckSchema
    \/ Enrich
    \/ OverallChart
    \/ GenreChart
    \/ GenreSelect
    \/ GenreDist
    \/ BuildPrompt
    \/ ButtonNotClicked
    \/ RemoteCallReturns
    \/ RemoteCallRaises
    \/ Footer

Interaction ==
    \/ EnterKey
    \/ RemoveFile
    \/ SelectGenre
    \/ ClickGenerate

\* the first run of a fresh session
Init ==
    /\ app \in {"app.py", "app1.py"}
    /\ openai_key = ""
    /\ uploaded_file = NoFile
    /\ genre_choice = NoneValue
    /\ clicked = FALSE
    /\ pc = "validate"
    /\ rendered = PageHeader
    /\ df = NoTable
    /\ selected_genre = NoneValue
    /\ genre_df = NoTable
    /\ sentiment_counts = <<>>
    /\ genre_sentiment = <<>>
    /\ genre_sentiment_dist = <<>>
    /\ feedback_text = <<>>
    /\ outcome = "running"
    /\ n_clicks = 0
    /\ n_calls = 0
    /\ run_calls = 0

-----------------------------------------------------------------------------
(* The files a user uploads *)

ColumnSets ==
    {{"Name"}, {"Feedback"}, {"Genre"}, {"Sentiment"}, {"Feedback", "Genre"},
     {"Feedback", "Sentiment"}, {"Genre", "Sentiment"},
     {"Feedback", "Genre", "Sentiment"}}

\* the table with the columns cols whose i-th row has the Feedback rows[i].f
\* and the Genre rows[i].g
MakeTable(cols, rows) ==
    [n |-> Len(rows),
     col |-> [c \in cols |->
                 [i \in 1..Len(rows) |->
                     CASE c = "Feedback" -> rows[i].f
                       [] c = "Genre" -> rows[i].g
                       [] c = "Sentiment" -> "Mixed"
                       [] OTHER -> StrCell(<<"n">>)]]]

SeqsUpTo(S, n) == UNION {[1..k -> S] : k \in 0..n}

GenreCells == {StrCell(GenreNames[k]) : k \in 1..Len(GenreNames)} \cup {NaN}

SmallFeedback ==
    {StrCell(<<"G","r","e","a","t">>), StrCell(<<"b","a","d">>), NaN}

SmallRows == {[f |-> f, g |-> g] : f \in SmallFeedback, g \in GenreCells}

SmallFiles ==
    CorruptFiles \cup
    {[name |-> nm, ok |-> TRUE, table |-> MakeTable(cols, rows)] :
        nm \in FileNames, cols \in ColumnSets, rows \in SeqsUpTo(SmallRows, MaxRows)}

Next == Upload(SmallFiles) \/ Interaction \/ RunStep

Spec == Init /\ [][Next]_vars

\* Files for the classifier: one-row tables whose Feedback is any text made
\* of at most MaxFrags fragments (keywords, parts of keywords, an upper-case
\* keyword, a blank), or NaN; and two-row tables with two genres.
Fragments ==
    { <<"l","o","v","e">>, <<"b","a","d">>, <<"G","r","e","a","t">>,
      <<"l","o">>, <<"v","e">>, <<"b","a">>, <<"d">>, <<" ">> }

RECURSIVE Flatten(_)
Flatten(parts) ==
    IF Len(parts) = 0 THEN <<>> ELSE parts[1] \o Flatten(Tail(parts))

Texts == {Flatten(parts) : parts \in SeqsUpTo(Fragments, MaxFrags)}

TextCells == {StrCell(t) : t \in Texts} \cup {NaN}

TextFiles ==
    CorruptFiles \cup
    {[name |-> "data.csv", ok |-> TRUE,
      table |-> MakeTable({"Feedback", "Genre"}, <<[f |-> c, g |-> StrCell("Drama")]>>)] :
        c \in TextCells} \cup
    {[name |-> "data.xlsx", ok |-> TRUE,
      table |-> MakeTable({"Feedback", "Genre"},
                          <<[f |-> c, g |-> StrCell("Comedy")],
                            [f |-> d, g |-> StrCell("Drama")]>>)] :
        c \in SmallFeedback, d \in SmallFeedback}

NextClassify == Upload(TextFiles) \/ Interaction \/ RunStep

SpecClassify == Init /\ [][NextClassify]_vars

\* Files for the prompt builder: long tables.  Row i repeats a short base
\* cyclically and ends its Feedback text with the last digit of i, so that
\* rows are told apart; the lengths are around the multiples of the two
\* truncation limits, and a few short ones.
Digits == <<"0","1","2","3","4","5","6","7","8","9">>

Marked(cell, i) ==
    IF cell.kind = "str" THEN StrCell(cell.val \o <<Digits[(i % 10) + 1]>>) ELSE cell

LongBases ==
    { << [f |-> StrCell(<<"o","k">>), g |-> StrCell("Drama")] >>,
      << [f |-> StrCell(<<"a", NL, "b">>), g |-> StrCell("Drama")] >>,
      << [f |-> StrCell(<<"G","r","e","a","t">>), g |-> StrCell("Comedy")],
         [f |-> StrCell(<<"b","a","d">>), g |-> StrCell("Drama")] >>,
      << [f |-> StrCell(<<"b","a","d">>), g |-> StrCell("Drama")],
         [f |-> NaN, g |-> NaN] >> }

LongLens ==
    0..(Slack + 1) \cup
    {k * m + d : k \in 1..2, m \in {MaxRowsApp, MaxRowsApp1}, d \in (0 - Slack)..Slack}

LongRows(base, n) ==
    [i \in 1..n |->
        LET r == base[((i - 1) % Len(base)) + 1] IN [f |-> Marked(r.f, i), g |-> r.g]]

LongFiles ==
    CorruptFiles \cup
    {[name |-> "data.csv", ok |-> TRUE,
      table |-> MakeTable({"Feedback", "Genre"}, LongRows(base, n))] :
        base \in LongBases, n \in LongLens}

NextPrompt == Upload(LongFiles) \/ Interaction \/ RunStep

SpecPrompt == Init /\ [][NextPrompt]_vars

-----------------------------------------------------------------------------
(* Where a run stands *)

Stages == <<"validate", "load", "schema", "enrich", "overall", "genre_chart",
            "genre_select", "genre_dist", "prompt", "button", "footer">>

StageRank(stage) == CHOOSE k \in 1..Len(Stages) : Stages[k] = stage

\* the current run is past the statement group `stage`, or ended past it
Past(stage, endings) ==
    IF pc = "idle" THEN outcome \in endings ELSE StageRank(pc) > StageRank(stage)

AfterLoad == Past("load", {"SchemaError", "UncaughtException", "RemoteError", "Success"})

AfterEnrich ==
    app = "app.py" /\ Past("enrich", {"UncaughtException", "RemoteError", "Success"})

AfterOverall ==
    app = "app.py" /\ Past("overall", {"UncaughtException", "RemoteError", "Success"})

AfterGenreChart ==
    app = "app.py" /\ Past("genre_chart", {"UncaughtException", "RemoteError", "Success"})

AfterPrompt == Past("prompt", {"RemoteError", "Success"})

LabelSet == {Labels[k] : k \in 1..Len(Labels)}

LastShown == rendered[Len(rendered)]

\* the charts on the page, in page order
ChartsShown ==
    LET idx == SelectSeq([i \in 1..Len(rendered) |-> i],
                         LAMBDA i : rendered[i].kind = "chart")
    IN [k \in 1..Len(idx) |-> rendered[idx[k]].data]

\* w occurs in t as a run of consecutive characters
Occurs(w, t) == \E a \in 1..(Len(t) - Len(w) + 1) : SubSeq(t, a, a + Len(w) - 1) = w

OccursAny(words, t) == \E k \in 1..Len(words) : Occurs(words[k], t)

\* text.split("\n")
SplitLines(t) ==
    LET nl == SelectSeq([i \in 1..Len(t) |-> i], LAMBDA i : t[i] = NL)
        cut == <<0>> \o nl \o <<Len(t) + 1>>
    IN [k \in 1..(Len(nl) + 1) |-> SubSeq(t, cut[k] + 1, cut[k + 1] - 1)]

\* the lines of a feedback section: none when it is empty
FeedbackLines(t) == IF t = <<>> THEN <<>> ELSE SplitLines(t)

HasNewline(t) == \E i \in 1..Len(t) : t[i] = NL

RECURSIVE SumCount(_)
SumCount(table) ==
    IF Len(table) = 0 THEN 0 ELSE table[1].Count + SumCount(Tail(table))

Min(a, b) == IF a < b THEN a ELSE b

-----------------------------------------------------------------------------
(* C1 *)

\* C1: a run whose loaded table lacks a required column ends in a schema
\* error whose message names exactly the missing columns, before enrichment,
\* charts, prompt building and the remote call.
C1_SchemaErrorNamesExactlyMissing ==
    (pc = "idle" /\ AfterLoad /\ \E c \in required_cols : c \notin Columns(df)) =>
        /\ outcome = "SchemaError"
        /\ LastShown.kind = "error"
        /\ LastShown.names = required_cols \ Columns(df)
        /\ df = uploaded_file.table
        /\ ~Shown("chart") /\ ~Shown("button")
        /\ feedback_text = <<>>
        /\ run_calls = 0

-----------------------------------------------------------------------------
(* C2, under SpecClassify *)

\* C2: every Sentiment label classify_sentiment gives is one of Positive,
\* Negative, Neutral; it is Positive when the lower-cased string form of the
\* Feedback holds a positive keyword (whatever else it holds), Negative when
\* it holds no positive but a negative keyword, and Neutral otherwise,
\* the empty string included.
C2_ClassifyTotalPositiveFirst ==
    AfterEnrich =>
        \A i \in 1..df.n :
            LET t == lower(str(df.col["Feedback"][i]))
                label == df.col["Sentiment"][i]
                pos == OccursAny(PositiveWords, t)
                neg == OccursAny(NegativeWords, t)
            IN /\ label \in LabelSet
               /\ pos => label = "Positive"
               /\ (~pos /\ neg) => label = "Negative"
               /\ (~pos /\ ~neg) => label = "Neutral"

\* a Feedback with an upper-case positive keyword after a negative keyword
\* has been classified Positive
C2_Witness ==
    /\ AfterEnrich
    /\ df.n = 1
    /\ df.col["Feedback"][1] = StrCell(<<"b","a","d","G","r","e","a","t">>)
    /\ df.col["Sentiment"][1] = "Positive"

-----------------------------------------------------------------------------
(* C3, under SpecPrompt *)

\* the rows the prompt samples, as row numbers of df: in app.py the rows
\* whose Genre is the selected genre, in app1.py all rows
SampledRows ==
    SelectSeq([i \in 1..df.n |-> i],
              LAMBDA i : app = "app.py" => (df.col["Genre"][i].kind = "str"
                                            /\ df.col["Genre"][i] = selected_genre))

SampledValues == [k \in 1..Len(SampledRows) |-> str(df.col["Feedback"][SampledRows[k]])]

AllValues == [i \in 1..df.n |-> str(df.col["Feedback"][i])]

\* C3 as claimed: the feedback section never holds more than max_rows
\* lines, and for an input of more than max_rows rows it holds exactly
\* max_rows lines, the first Feedback values of the input in row order.
\* (Stated for the tables none of whose Feedback values holds a newline,
\* where a value is a line.)
C3_AsClaimed ==
    (AfterPrompt /\ \A i \in 1..df.n : ~HasNewline(AllValues[i])) =>
        /\ Len(FeedbackLines(feedback_text)) <= max_rows
        /\ df.n > max_rows =>
              /\ Len(FeedbackLines(feedback_text)) = max_rows
              /\ FeedbackLines(feedback_text) = SubSeq(AllValues, 1, max_rows)

\* C3 as amended: the feedback section is the newline-join of the first
\* min(n, max_rows) Feedback values, in row order, of the n rows the prompt
\* samples (app1.py: every row; app.py: the rows of the selected genre):
\* never more than max_rows values, exactly max_rows of them when n is
\* larger; they are its lines when none of them holds a newline, and every
\* newline inside a value adds a line.
C3_AtMostMaxRowsSampledValues ==
    AfterPrompt =>
        LET m == Min(Len(SampledRows), max_rows)
            taken == SubSeq(SampledValues, 1, m)
            inner == Cardinality(UNION {{<<k, j>> : j \in {x \in 1..Len(taken[k]) :
                                                             taken[k][x] = NL}} :
                                        k \in 1..m})
        IN /\ m <= max_rows
           /\ Len(SampledRows) > max_rows => m = max_rows
           /\ m = 0 => feedback_text = <<>>
           /\ m > 0 => Len(SplitLines(feedback_text)) = m + inner
           /\ (m > 0 /\ inner = 0) => SplitLines(feedback_text) = taken

\* app.py: a table of more than 2 * 120 rows, alternating between two
\* genres, of which the selected genre has more than 120: 120 are sampled
C3_Witness ==
    /\ AfterPrompt
    /\ app = "app.py"
    /\ df.n > 2 * max_rows
    /\ Len(SampledRows) > max_rows
    /\ Len(SampledRows) < df.n
    /\ Len(SplitLines(feedback_text)) = max_rows

-----------------------------------------------------------------------------
(* C4 *)

\* C4: a remote call is issued only in a run with a credential, an uploaded
\* file that parsed, every required column and a click; a run without
\* credential or without file shows one informational message and no
\* error, and stops before loading, charting and calling.
C4_CallOnlyAfterValidation ==
    /\ run_calls > 0 =>
          /\ openai_key # ""
          /\ uploaded_file # NoFile
          /\ ~read_raises(uploaded_file)
          /\ required_cols \subseteq Columns(uploaded_file.table)
          /\ clicked
    /\ (pc = "idle" /\ (openai_key = "" \/ uploaded_file = NoFile)) =>
          /\ outcome = "MissingInput"
          /\ CountShown(rendered, "info") = 1
          /\ LastShown.kind = "info"
          /\ CountShown(rendered, "error") = 0
          /\ df = NoTable
          /\ ~Shown("chart") /\ ~Shown("dataframe") /\ ~Shown("button")
          /\ run_calls = 0

\* a run without a file has stopped with the informational message while
\* an earlier run of the session did call the remote service
C4_Witness ==
    /\ pc = "idle"
    /\ openai_key # ""
    /\ uploaded_file = NoFile
    /\ outcome = "MissingInput"
    /\ n_calls > 0

-----------------------------------------------------------------------------
(* C5 *)

\* C5: the step in which the remote call raises leaves everything already
\* on the page as it was and adds one error message; the run then ends
\* with exactly one error message, no insight report, and the charts of
\* the tables it computed.
C5_RemoteErrorKeepsPage ==
    /\ [][(outcome # "RemoteError" /\ outcome' = "RemoteError") =>
             /\ SubSeq(rendered', 1, Len(rendered)) = rendered
             /\ CountShown(rendered', "error") = 1
             /\ rendered'[Len(rendered')].kind = "error"
             /\ <<df', sentiment_counts', genre_sentiment', genre_sentiment_dist'>>
                  = <<df, sentiment_counts, genre_sentiment, genre_sentiment_dist>>]_vars
    /\ [](outcome = "RemoteError" =>
             /\ CountShown(rendered, "error") = 1
             /\ ~Shown("report") /\ ~Shown("heading")
             /\ app = "app.py" =>
                   ChartsShown = <<sentiment_counts, genre_sentiment, genre_sentiment_dist>>)

\* a run of app.py over a non-empty table has ended after a failed call
C5_Witness ==
    /\ pc = "idle"
    /\ outcome = "RemoteError"
    /\ app = "app.py"
    /\ Len(ChartsShown) = 3
    /\ Len(sentiment_counts) > 0

-----------------------------------------------------------------------------
(* C6 *)

\* C6: a run issues at most one remote call, none without a click and
\* exactly one with a click, failed or not; between runs the number of
\* calls equals the number of clicks.
C6_OneCallPerClick ==
    /\ run_calls <= 1
    /\ ~clicked => run_calls = 0
    /\ (clicked /\ pc \in {"footer", "idle"}) => run_calls = 1
    /\ pc = "idle" => n_calls = n_clicks
    /\ n_clicks - n_calls \in {0, 1}

\* two clicks have given two calls, the second of which failed
C6_Witness ==
    /\ pc = "idle"
    /\ n_clicks = 2
    /\ n_calls = 2
    /\ outcome = "RemoteError"

-----------------------------------------------------------------------------
(* C7 *)

\* C7: every run ends as MissingInput, LoadError, SchemaError, RemoteError
\* or success; no input leads to an uncaught exception.
C7_NoUncaughtException ==
    pc = "idle" =>
        outcome \in {"MissingInput", "LoadError", "SchemaError", "RemoteError", "Success"}

-----------------------------------------------------------------------------
(* C8 *)

NoNull(series) == \A i \in 1..Len(series) : series[i].kind # "nan"

\* C8: the counts per Sentiment sum to the number of rows of the table,
\* and so do the counts per (Genre, Sentiment) when no Genre is missing.
C8_CountsSumToRows ==
    /\ AfterOverall => SumCount(sentiment_counts) = df.n
    /\ (AfterGenreChart /\ NoNull(df.col["Genre"])) => SumCount(genre_sentiment) = df.n

\* two rows with the same label and no missing Genre have been counted
C8_Witness ==
    /\ AfterGenreChart
    /\ df.n >= 2
    /\ NoNull(df.col["Genre"])
    /\ Len(sentiment_counts) = 1
    /\ Len(genre_sentiment) = 2

-----------------------------------------------------------------------------
(* C9 *)

\* C9: the count tables keep every category value, a sentiment label no
\* row carries included (with count zero), overall and within the selected
\* genre; a table without rows gives empty count tables and no error.
C9_ZeroCountCategoriesKept ==
    /\ (AfterOverall /\ df.n > 0) =>
          \A l \in LabelSet :
              \E k \in 1..Len(sentiment_counts) : sentiment_counts[k].Sentiment = l
    /\ (AfterPrompt /\ app = "app.py" /\ genre_df.n > 0) =>
          \A l \in LabelSet :
              \E k \in 1..Len(genre_sentiment_dist) : genre_sentiment_dist[k].Sentiment = l
    /\ (AfterOverall /\ df.n = 0) =>
          /\ sentiment_counts = <<>>
          /\ outcome # "UncaughtException"

-----------------------------------------------------------------------------
(* C10 *)

\* C10 as claimed: after the load step the table stays exactly what the
\* parser returned: rows, columns and values.
C10_AsClaimed ==
    AfterLoad => df = uploaded_file.table

\* C10 as amended: after the load step the table keeps its rows and every
\* loaded column other than Sentiment, Feedback included, as the parser
\* returned them; enrichment (app.py) changes it in place, adding the
\* Sentiment column or overwriting the one the file supplied with the three
\* labels; nothing else is added, and before enrichment and in app1.py the
\* table is exactly what the parser returned.
C10_OnlySentimentColumnChanges ==
    AfterLoad =>
        LET t == uploaded_file.table IN
        /\ df.n = t.n
        /\ Columns(t) \subseteq Columns(df)
        /\ Columns(df) \subseteq Columns(t) \cup {"Sentiment"}
        /\ \A c \in Columns(t) \ {"Sentiment"} : df.col[c] = t.col[c]
        /\ ~AfterEnrich => df = t
        /\ AfterEnrich =>
              /\ "Sentiment" \in Columns(df)
              /\ \A i \in 1..df.n : df.col["Sentiment"][i] \in LabelSet

\* the Sentiment column a file supplied has been overwritten, its Feedback
\* kept, and the run went on to the end
C10_Witness ==
    /\ pc = "idle"
    /\ outcome = "Success"
    /\ app = "app.py"
    /\ "Sentiment" \in Columns(uploaded_file.table)
    /\ df.n = 2
    /\ df.col["Sentiment"] # uploaded_file.table.col["Sentiment"]
    /\ df.col["Feedback"] = uploaded_file.table.col["Feedback"]
    /\ df.col["Feedback"][1] = StrCell(<<"G","r","e","a","t">>)

====
